---- MODULE Spec2Model ----
(***************************************************************************)
(* A model of the AI-Proxy provider gateway (src/client.py, src/config.py, *)
(* src/api.py): routing of chat-completion requests by "provider/model"    *)
(* prefix, the streaming and buffered response paths with their release    *)
(* points, and the aggregation of the providers' model lists.              *)
(*                                                                         *)
(* Strings the code takes apart (model names, model ids) are sequences of  *)
(* one-character strings, so that splitting and prefixing are computed.    *)
(* Text that the code only produces (log-like error messages, exception    *)
(* names) is kept as tokens.                                               *)
(***************************************************************************)
EXTENDS Integers, Sequences, FiniteSets, TLC

(***************************************************************************)
(* Bounds of the model.                                                    *)
(***************************************************************************)
\* config.max_response_size, scaled down (the default is 10 MiB).
MaxResponseSize == 1
\* Most chunks one upstream event-stream delivers.
MaxChunks == 2

(***************************************************************************)
(* Configuration: the providers, in registration order (Config.providers). *)
(***************************************************************************)
ProviderNames == << <<"a">>, <<"b">> >>

ClientKeys == { ProviderNames[i] : i \in 1..Len(ProviderNames) }

\* Python's None where a client is looked up.
NoClient == <<"<None>">>

(***************************************************************************)
(* Strings.                                                                *)
(***************************************************************************)
HasSlash(s) == \E i \in 1..Len(s) : s[i] = "/"

FirstSlash(s) == CHOOSE i \in 1..Len(s) : s[i] = "/" /\ \A j \in 1..(i-1) : s[j] # "/"

\* ProviderClient.parse_model_name: split on the first "/".
parse_model_name(model) ==
    IF HasSlash(model)
    THEN << SubSeq(model, 1, FirstSlash(model) - 1),
            SubSeq(model, FirstSlash(model) + 1, Len(model)) >>
    ELSE << <<>>, model >>

IsPrefix(p, s) == Len(p) <= Len(s) /\ SubSeq(s, 1, Len(p)) = p

(***************************************************************************)
(* Request envelopes: open maps, a field may be absent.                    *)
(***************************************************************************)
ModelNames ==
    { <<>>,                         \* ""
      <<"a", "/", "m">>,            \* "a/m"
      <<"b", "/", "m">>,            \* "b/m"
      <<"a", "/", "m", "/", "n">>,  \* "a/m/n"
      <<"a", "/">>,                 \* "a/"
      <<"m">>,                      \* "m": no prefix
      <<"/", "m">>,                 \* "/m": empty prefix
      <<"c", "/", "m">>,            \* "c/m": unknown provider
      <<"a", "b", "/", "m">> }      \* "ab/m": unknown provider

MessageLists == { <<>>, << [role |-> "user", content |-> "hi"] >> }

FullBodies == [model : ModelNames, messages : MessageLists, stream : BOOLEAN]

BodyKeys == {"model", "messages", "stream"}

Bodies == { [k \in D |-> full[k]] : full \in FullBodies, D \in SUBSET BodyKeys }

\* body.get(k) is truthy: present and, by the field's type, neither "" nor [] nor
\* False.
Truthy(body_, k) ==
    /\ k \in DOMAIN body_
    /\ IF k = "stream" THEN body_[k] = TRUE ELSE body_[k] # <<>>

(***************************************************************************)
(* What the upstream does with one chat request.                           *)
(*   transport: the request fails before any response (timeout, network)  *)
(*   status, ctype: the response's status code and content type           *)
(*   clen: the declared content-length, -1 when the header is absent       *)
(*   size: the bytes of the body actually read                             *)
(*   json: the body is no JSON, JSON without / with a "model" field        *)
(*   closeFails: response.aclose() raises                                  *)
(***************************************************************************)
NoHeader == 0 - 1

Upstreams ==
    [ transport : {"ok", "timeout", "network"},
      status : {200, 404, 500},
      ctype : {"json", "sse"},
      clen : {NoHeader} \cup (0..(MaxResponseSize + 1)),
      size : 0..(MaxResponseSize + 1),
      json : {"bad", "plain", "model"},
      closeFails : BOOLEAN ]

\* httpx.Response.is_success, which raise_for_status tests.
IsSuccess(status) == 200 <= status /\ status <= 299

(***************************************************************************)
(* Results.                                                                *)
(***************************************************************************)
NoResult == [kind |-> "none"]

InvalidRequest ==
    [kind |-> "error", type |-> "invalid_request", code |-> "invalid_request",
     message |-> << <<"missing">>, <<"model or messages">> >>]

ModelNotFound(model) ==
    [kind |-> "error", type |-> "model_not_found", code |-> "model_not_found",
     message |-> << <<"no provider for model">>, model >>]

\* A variant whose message leaves the provider out.
create_error_response_Anonymous(name, message) ==
    [kind |-> "error", type |-> "provider_error", code |-> "provider_request_failed",
     message |-> << <<"provider">>, message >>]

\* ProviderClient._create_error_response
create_error_response(name, message) ==
    [kind |-> "error", type |-> "provider_error", code |-> "provider_request_failed",
     message |-> << <<"provider">>, name, message >>]

StreamResult == [kind |-> "stream_response"]

(***************************************************************************)
(* State.                                                                  *)
(*                                                                         *)
(* One chat-completion call at a time is followed from its entry to the    *)
(* end of the consumption of its result (calls share no state: each owns   *)
(* its response object).                                                   *)
(***************************************************************************)
VARIABLES
    callState,    \* "idle", "returned" (a result was returned), "raised"
    entry,        \* "none", "gateway" (ModelManager), "provider" (ProviderClient)
    body,         \* the inbound envelope of the call
    upstream,     \* what the upstream does with the call's request
    result,       \* the result returned to the caller
    raised,       \* the exception that escaped the call, "none" if none
    sent,         \* the payloads sent upstream by the call, in order
    respObtained, \* the call got a response object from the pooled client
    respRead,     \* the response's body has been read into memory
    released,     \* how many times response.aclose() was called
    closeErrors,  \* how many failures of aclose() were caught and logged
    gen,          \* stream_generator: "none", "created", "running", "suspended",
                  \*   "finally", "unwound", "closed"
    pending,      \* what unwinds through the generator: "none", "StopAsyncIteration",
                  \*   "CancelledError", "StreamError", "GeneratorExit"
    signal,       \* what the consumer got from the generator when it ended
    chunks,       \* chunks delivered to the consumer
    readTimeout,  \* the read timeout (seconds) the call's request was sent under
    consumer      \* "none", "active", "gone" (dropped the generator without closing it)

chatVars == << callState, entry, body, upstream, result, raised, sent, respObtained,
               respRead, released, closeErrors, gen, pending, signal, chunks, consumer,
               readTimeout >>

VARIABLES
    now,          \* time.time()
    supported,    \* config.supported_models
    cache,        \* per client: _models_cache, NoCache for None
    lastFetch,    \* per client: _last_fetch_time, NoTime for None
    fetchFailed,  \* per client: _fetch_failed
    task,         \* the get_models coroutines: 0 is a direct call, i >= 1 is the
                  \*   branch of the aggregate call for provider i
    agg,          \* the get_all_models call
    disc          \* per client, the last discovery of a direct call that ended: when
                  \*   its last attempt ended, whether every attempt failed, whether
                  \*   the call was forced

modelVars == << now, supported, cache, lastFetch, fetchFailed, task, agg, disc >>

VARIABLES
    model_manager, \* api.model_manager: the generation of the live ModelManager
    closed,        \* the pooled clients that are closed: pairs <<generation, name>>
    closing,       \* the close_all coroutine and its caller
    request,       \* a chat request of the serving layer, from routing to its end
    hbranch,       \* the health_check coroutines of the aggregate health check
    hagg,          \* ModelManager.health_check
    served         \* POST /v1/chat/completions: the request, its token, the answer

lifeVars == << model_manager, closed, closing, request, hbranch, hagg, served >>

NoBody == [k \in {} |-> TRUE]

NoUpstream == [transport |-> "none"]

(***************************************************************************)
(* ProviderClient.chat_completion                                          *)
(***************************************************************************)
\* A variant of the buffered branch that trusts the declared content-length.
BufferedBranch_HeaderOnly(model, up) ==
    IF up.clen # NoHeader /\ up.clen > MaxResponseSize
    THEN [ret |-> NoResult, exc |-> "ValueError", read |-> FALSE]
    ELSE IF up.json = "bad"
    THEN [ret |-> NoResult, exc |-> "JSONDecodeError", read |-> TRUE]
    ELSE IF up.json = "model"
    THEN [ret |-> [kind |-> "body", id |-> "cmpl", model |-> model],
          exc |-> "none", read |-> TRUE]
    ELSE [ret |-> [kind |-> "body", id |-> "cmpl"], exc |-> "none", read |-> TRUE]

\* The body of the buffered branch: the two size checks, then json.loads and the
\* rewrite of the result's "model". exc is the exception it raises.
BufferedBranch(model, up) ==
    IF up.clen # NoHeader /\ up.clen > MaxResponseSize
    THEN [ret |-> NoResult, exc |-> "ValueError", read |-> FALSE]
    ELSE IF up.size > MaxResponseSize
    THEN [ret |-> NoResult, exc |-> "ValueError", read |-> TRUE]
    ELSE IF up.json = "bad"
    THEN [ret |-> NoResult, exc |-> "JSONDecodeError", read |-> TRUE]
    ELSE IF up.json = "model"
    THEN [ret |-> [kind |-> "body", id |-> "cmpl", model |-> model],
          exc |-> "none", read |-> TRUE]
    ELSE [ret |-> [kind |-> "body", id |-> "cmpl"], exc |-> "none", read |-> TRUE]

\* "if not model or not messages" of ProviderClient.chat_completion, with a check of
\* the model alone before it (a variant used to test the claims).
ClientMissingRequired_ModelOnly(body_) == ~Truthy(body_, "model")

ClientMissingRequired(body_) == ~Truthy(body_, "model") \/ ~Truthy(body_, "messages")

\* A variant that forwards only the two fields the code inspects.
UpstreamPayload_KnownFields(body_) ==
    [k \in (DOMAIN body_) \cap {"model", "messages"} |->
        IF k = "model" THEN parse_model_name(body_["model"])[2] ELSE body_[k]]

\* "data = dict(body); data['model'] = actual_model" (client.py:220-226)
UpstreamPayload(body_) ==
    [k \in DOMAIN body_ |->
        IF k = "model" THEN parse_model_name(body_["model"])[2] ELSE body_[k]]

\* config.stream_timeout and config.non_stream_timeout (defaults, in seconds), and
\* the timeout _fetch_models_with_retry passes with its GET /models.
stream_timeout == 300

non_stream_timeout == 30

DiscoveryTimeout == 15

\* No request was sent.
NoTimeout == 0

\* The read timeout of the pooled client: ProviderClient.__init__ reads both
\* settings and builds httpx.Timeout(read=stream_timeout).
ClientReadTimeout == stream_timeout

\* The read timeout one request runs under: the one passed with the request, else
\* the client's. Only GET /models of the discovery passes one; client.post and
\* client.send of chat_completion pass none.
RequestReadTimeout(kind) ==
    IF kind = "discovery" THEN DiscoveryTimeout ELSE ClientReadTimeout

\* The try block: what it returns (ret) or raises (exc), the payloads it sent, and
\* the response it holds when it ends.
ChatTry(body_, up) ==
    IF ClientMissingRequired(body_)
    THEN [ret |-> InvalidRequest, exc |-> "none", sent |-> <<>>, obtained |-> FALSE,
          read |-> FALSE, is_stream_response |-> FALSE]
    ELSE
    LET data == UpstreamPayload(body_)
        is_stream == Truthy(body_, "stream")
    IN  IF up.transport = "timeout"
        THEN [ret |-> NoResult, exc |-> "TimeoutException", sent |-> <<data>>,
              obtained |-> FALSE, read |-> FALSE, is_stream_response |-> FALSE]
        ELSE IF up.transport = "network"
        THEN [ret |-> NoResult, exc |-> "NetworkError", sent |-> <<data>>,
              obtained |-> FALSE, read |-> FALSE, is_stream_response |-> FALSE]
        ELSE IF ~IsSuccess(up.status)
        THEN \* client.post has read the body, client.send(stream=True) has not
             [ret |-> NoResult, exc |-> "HTTPStatusError", sent |-> <<data>>,
              obtained |-> TRUE, read |-> ~is_stream, is_stream_response |-> FALSE]
        ELSE IF up.ctype = "sse" \/ is_stream
        THEN [ret |-> StreamResult, exc |-> "none", sent |-> <<data>>,
              obtained |-> TRUE, read |-> ~is_stream, is_stream_response |-> TRUE]
        ELSE LET b == BufferedBranch(body_["model"], up)
             IN  [ret |-> b.ret, exc |-> b.exc, sent |-> <<data>>,
                  obtained |-> TRUE, read |-> TRUE, is_stream_response |-> FALSE]

\* The except clauses. The HTTPStatusError clause formats e.response.text into its
\* log line: on a response whose body was not read, httpx raises ResponseNotRead
\* there, inside the handler, and no later clause of the same try catches it.
ChatExcept(name, t) ==
    IF t.exc = "none"
    THEN [ret |-> t.ret, exc |-> "none"]
    ELSE IF t.exc = "HTTPStatusError"
    THEN IF t.read
         THEN [ret |-> create_error_response(name, <<"HTTP status">>), exc |-> "none"]
         ELSE [ret |-> NoResult, exc |-> "ResponseNotRead"]
    ELSE [ret |-> create_error_response(name, <<t.exc>>), exc |-> "none"]

\* Variants of the finally clause: one that closes whatever the branch, one that
\* closes only when the try block raised nothing.
ChatFinally_CloseAlways(t) ==
    IF t.obtained THEN 1 ELSE 0

ChatFinally_OnlyOnSuccess(t) ==
    IF t.obtained /\ ~t.is_stream_response /\ t.exc = "none" THEN 1 ELSE 0

\* The finally clause: how many times it calls response.aclose().
ChatFinally(t) ==
    IF t.obtained /\ ~t.is_stream_response THEN 1 ELSE 0

ProviderClient_chat_completion(name, body_, up) ==
    LET t == ChatTry(body_, up)
        e == ChatExcept(name, t)
        n == ChatFinally(t)
    IN  [result |-> e.ret, raised |-> e.exc, sent |-> t.sent, obtained |-> t.obtained,
         read |-> t.read, released |-> n,
         read_timeout |-> IF t.sent = <<>> THEN NoTimeout
                          ELSE IF Truthy(body_, "stream")
                               THEN RequestReadTimeout("chat_stream")
                               ELSE RequestReadTimeout("chat"),
         closeErrors |-> IF n > 0 /\ up.closeFails THEN n ELSE 0,
         gen |-> IF e.ret = StreamResult THEN "created" ELSE "none"]

(***************************************************************************)
(* ModelManager                                                            *)
(***************************************************************************)
\* A variant that routes a name without prefix to the first provider.
get_provider_client_Default(model) ==
    LET provider_name == parse_model_name(model)[1]
    IN  IF provider_name = <<>>
        THEN ProviderNames[1]
        ELSE IF provider_name \in ClientKeys THEN provider_name ELSE NoClient

\* ModelManager.get_provider_client
get_provider_client(model) ==
    LET provider_name == parse_model_name(model)[1]
    IN  IF provider_name = <<>>
        THEN NoClient
        ELSE IF provider_name \in ClientKeys THEN provider_name ELSE NoClient

\* "if not model or not messages" of ModelManager.chat_completion
ManagerMissingRequired(body_) == ~Truthy(body_, "model") \/ ~Truthy(body_, "messages")

NoCall(res) ==
    [result |-> res, raised |-> "none", sent |-> <<>>, obtained |-> FALSE,
     read |-> FALSE, released |-> 0, closeErrors |-> 0, gen |-> "none",
     read_timeout |-> NoTimeout]

ModelManager_chat_completion(body_, up) ==
    IF ManagerMissingRequired(body_)
    THEN NoCall(InvalidRequest)
    ELSE IF get_provider_client(body_["model"]) = NoClient
    THEN NoCall(ModelNotFound(body_["model"]))
    ELSE ProviderClient_chat_completion(get_provider_client(body_["model"]), body_, up)

(***************************************************************************)
(* Actions of a chat-completion call.                                      *)
(***************************************************************************)
Returned(e, b, up, r) ==
    /\ callState' = (IF r.raised = "none" THEN "returned" ELSE "raised")
    /\ entry' = e
    /\ body' = b
    /\ upstream' = (IF r.sent = <<>> THEN NoUpstream ELSE up)
    /\ result' = r.result
    /\ raised' = r.raised
    /\ sent' = r.sent
    /\ respObtained' = r.obtained
    /\ respRead' = r.read
    /\ released' = r.released
    /\ closeErrors' = r.closeErrors
    /\ gen' = r.gen
    /\ pending' = "none"
    /\ signal' = "none"
    /\ chunks' = 0
    /\ consumer' = (IF r.gen = "created" THEN "active" ELSE "none")
    /\ readTimeout' = r.read_timeout
    /\ UNCHANGED << modelVars, lifeVars >>

\* The request-serving layer calls ModelManager.chat_completion(body).
GatewayChat ==
    /\ callState = "idle"
    /\ \E b \in Bodies, up \in Upstreams :
          Returned("gateway", b, up, ModelManager_chat_completion(b, up))

\* A caller calls ProviderClient.chat_completion(body) on one connection.
ProviderChat ==
    /\ callState = "idle"
    /\ \E name \in ClientKeys, b \in Bodies, up \in Upstreams :
          Returned("provider", b, up, ProviderClient_chat_completion(name, b, up))

(***************************************************************************)
(* stream_generator and its consumer.                                      *)
(***************************************************************************)
genFrame == << callState, entry, body, upstream, result, raised, sent, respObtained,
               respRead, readTimeout, modelVars, lifeVars >>

\* The consumer asks for the next chunk: the generator runs into aiter_text.
ConsumerNext ==
    /\ consumer = "active"
    /\ gen \in {"created", "suspended"}
    /\ gen' = "running"
    /\ UNCHANGED << genFrame, released, closeErrors, pending, signal, chunks, consumer >>

\* aiter_text delivers a chunk, which the generator yields.
YieldChunk ==
    /\ gen = "running"
    /\ chunks < MaxChunks
    /\ gen' = "suspended"
    /\ chunks' = chunks + 1
    /\ UNCHANGED << genFrame, released, closeErrors, pending, signal, consumer >>

\* What ends the async-for of a running generator: the upstream stream ends, it
\* fails mid-stream, or the consuming task is cancelled while it waits.
Unwind(what) ==
    /\ gen = "running"
    /\ gen' = "finally"
    /\ pending' = what
    /\ UNCHANGED << genFrame, released, closeErrors, signal, chunks, consumer >>

StreamExhausted == Unwind("StopAsyncIteration")

StreamFails == Unwind("StreamError")

ConsumerCancelled == Unwind("CancelledError")

\* The consumer calls aclose() on the generator. A generator suspended at its yield
\* gets GeneratorExit there; one that never started is marked closed and none of its
\* code runs, its finally clause included.
ConsumerCloses ==
    /\ consumer = "active"
    /\ gen \in {"created", "suspended"}
    /\ IF gen = "created"
       THEN gen' = "closed" /\ pending' = "unstarted"
       ELSE gen' = "finally" /\ pending' = "GeneratorExit"
    /\ UNCHANGED << genFrame, released, closeErrors, signal, chunks, consumer >>

\* The consumer drops the generator without closing it.
ConsumerAbandons ==
    /\ consumer = "active"
    /\ gen \in {"created", "suspended"}
    /\ consumer' = "gone"
    /\ UNCHANGED << genFrame, released, closeErrors, gen, pending, signal, chunks >>

\* The event loop's finalizer closes a dropped generator that had started. One that
\* never started has no finalizer and no frame to unwind.
Finalizer ==
    /\ consumer = "gone"
    /\ gen = "suspended"
    /\ gen' = "finally"
    /\ pending' = "GeneratorExit"
    /\ UNCHANGED << genFrame, released, closeErrors, signal, chunks, consumer >>

\* How many times the generator's finally clause calls response.aclose().
GenFinallyCloses == 1

\* The generator's finally clause.
GenFinally ==
    /\ gen = "finally"
    /\ gen' = "unwound"
    /\ released' = released + GenFinallyCloses
    /\ closeErrors' = closeErrors + (IF upstream.closeFails THEN GenFinallyCloses ELSE 0)
    /\ UNCHANGED << genFrame, pending, signal, chunks, consumer >>

\* A variant whose CancelledError clause does not re-raise: the generator just ends.
GenRaises_SwallowCancel(p) == IF p = "CancelledError" THEN "StopAsyncIteration" ELSE p

\* What leaves the generator after its finally clause: the except clauses re-raise.
GenRaises(p) == p

GenExit ==
    /\ gen = "unwound"
    /\ gen' = "closed"
    /\ signal' = GenRaises(pending)
    /\ UNCHANGED << genFrame, released, closeErrors, pending, chunks, consumer >>

\* The call and its result are over; the next call starts.
NextCall ==
    /\ callState # "idle"
    /\ gen \in {"none", "closed"} \/ (consumer = "gone" /\ gen = "created")
    /\ callState' = "idle"
    /\ entry' = "none"
    /\ body' = NoBody
    /\ upstream' = NoUpstream
    /\ result' = NoResult
    /\ raised' = "none"
    /\ sent' = <<>>
    /\ respObtained' = FALSE
    /\ respRead' = FALSE
    /\ released' = 0
    /\ closeErrors' = 0
    /\ gen' = "none"
    /\ pending' = "none"
    /\ signal' = "none"
    /\ chunks' = 0
    /\ consumer' = "none"
    /\ readTimeout' = NoTimeout
    /\ UNCHANGED << modelVars, lifeVars >>

ChatInit ==
    /\ callState = "idle"
    /\ entry = "none"
    /\ body = NoBody
    /\ upstream = NoUpstream
    /\ result = NoResult
    /\ raised = "none"
    /\ sent = <<>>
    /\ respObtained = FALSE
    /\ respRead = FALSE
    /\ released = 0
    /\ closeErrors = 0
    /\ gen = "none"
    /\ pending = "none"
    /\ signal = "none"
    /\ chunks = 0
    /\ consumer = "none"
    /\ readTimeout = NoTimeout

ChatNext ==
    \/ GatewayChat
    \/ ProviderChat
    \/ ConsumerNext
    \/ YieldChunk
    \/ StreamExhausted
    \/ StreamFails
    \/ ConsumerCancelled
    \/ ConsumerCloses
    \/ ConsumerAbandons
    \/ Finalizer
    \/ GenFinally
    \/ GenExit
    \/ NextCall

(***************************************************************************)
(* Model discovery: ProviderClient.get_models, _fetch_models_with_retry,   *)
(* ModelManager.get_all_models and clear_cache, Config.filter_models.      *)
(***************************************************************************)
\* The clock (time.time(), in seconds) stops here.
MaxTime == 18

\* The clock stops here while aggregate calls are followed.
MaxAggregateTime == 12

\* The clock stops here while concurrent calls on one connection are followed.
MaxRaceTime == 3

\* The clock stops here while one refetch is followed to its end, unless a
\* coroutine sleeps.
MaxRefetchTime == 3

\* The seconds a failed discovery is served from the cache (client.py:114).
Cooldown == 10

\* _fetch_models_with_retry's max_retries (client.py:136).
MaxRetries == 3

\* The cap of the backoff delay (client.py:150).
BackoffCap == 10

NoTime == 0 - 1

\* Entries of an upstream /models answer: open maps again.
RawLists ==
    { <<>>,
      << [id |-> <<"m">>, object |-> "engine", created |-> "1700", owned_by |-> <<"b">>] >>,
      << [id |-> <<"b", "/", "M">>, owned_by |-> <<"o">>], [model |-> <<"n">>] >> }

\* What one GET /models attempt ends in: a failure, a JSON object without "data",
\* or a list.
FetchFailures == {"timeout", "network", "http", "malformed"}

\* dict.get(k, default)
GetOr(d, k, default) == IF k \in DOMAIN d THEN d[k] ELSE default

\* A variant that keeps the owner the upstream reports.
NormalizeModel_KeepOwner(name, model) ==
    [ id |-> name \o <<"/">> \o GetOr(model, "id", GetOr(model, "model", <<>>)),
      object |-> GetOr(model, "object", "model"),
      created |-> GetOr(model, "created", "None"),
      owned_by |-> GetOr(model, "owned_by", name) ]

\* The ModelInfo built from one raw entry (client.py:164-172).
NormalizeModel(name, model) ==
    [ id |-> name \o <<"/">> \o GetOr(model, "id", GetOr(model, "model", <<>>)),
      object |-> GetOr(model, "object", "model"),
      created |-> GetOr(model, "created", "None"),
      owned_by |-> name ]

NormalizeModels(name, data) == [i \in 1..Len(data) |-> NormalizeModel(name, data[i])]

\* min(2 ** attempt, 10)
Pow2(n) == IF n = 0 THEN 1 ELSE IF n = 1 THEN 2 ELSE IF n = 2 THEN 4 ELSE 8

\* A variant that waits the same time before every retry.
wait_time_Fixed(attempt) == 2

\* min(2 ** attempt, 10) (client.py:150)
wait_time(attempt) == IF Pow2(attempt) < BackoffCap THEN Pow2(attempt) ELSE BackoffCap

(***************************************************************************)
(* Config.supported_models: patterns, matched with re.search and           *)
(* re.IGNORECASE. A pattern is "^text" (anchored), "text" (anywhere) or    *)
(* one that does not compile.                                              *)
(***************************************************************************)
Lower(c) == IF c = "M" THEN "m" ELSE IF c = "A" THEN "a" ELSE IF c = "B" THEN "b" ELSE c

LowerStr(s) == [i \in 1..Len(s) |-> Lower(s[i])]

Occurs(text, s) ==
    \E i \in 1..(Len(s) - Len(text) + 1) : SubSeq(s, i, i + Len(text) - 1) = text

\* re.search(pattern, model_id, re.IGNORECASE) finds a match; an invalid pattern
\* raises re.error, which is_model_supported logs and skips.
PatternMatches(pattern, model_id) ==
    IF pattern.kind = "invalid" THEN FALSE
    ELSE IF pattern.kind = "anchored"
    THEN IsPrefix(LowerStr(pattern.text), LowerStr(model_id))
    ELSE Occurs(LowerStr(pattern.text), LowerStr(model_id))

PatternLists ==
    { <<>>,
      << [kind |-> "invalid", text |-> <<"[">>], [kind |-> "anchored", text |-> <<"A", "/">>] >>,
      << [kind |-> "search", text |-> <<"/", "m">>] >> }

\* A variant in which the first pattern that does not compile ends the search.
is_model_supported_AbortOnInvalid(patterns, model_id) ==
    IF patterns = <<>>
    THEN TRUE
    ELSE \E i \in 1..Len(patterns) :
            /\ PatternMatches(patterns[i], model_id)
            /\ \A j \in 1..(i - 1) : patterns[j].kind # "invalid"

\* Config.is_model_supported
is_model_supported(patterns, model_id) ==
    IF patterns = <<>>
    THEN TRUE
    ELSE \E i \in 1..Len(patterns) : PatternMatches(patterns[i], model_id)

\* Config.filter_models
filter_models(patterns, models) ==
    IF patterns = <<>>
    THEN models
    ELSE SelectSeq(models, LAMBDA m : is_model_supported(patterns, m.id))

\* Provider.model_list of the configured providers ("model_list" of the provider's
\* entry, [] when absent): a declares its models, b leaves them to discovery.
model_list(c) == IF c = <<"a">> THEN << <<"m">> >> ELSE <<>>

\* None as a cache: no list of models holds this entry.
NoCache == << [none |-> TRUE] >>

N == Len(ProviderNames)

TaskIds == 0..N

IdleTask ==
    [pc |-> "idle", client |-> NoClient, force |-> FALSE, current_time |-> NoTime,
     attempt |-> 0, wake |-> NoTime, requests |-> 0, ret |-> <<>>, exc |-> "none"]

\* A get_models coroutine that has ended: what it returned or raised, and how many
\* GET /models requests it sent.
Done(t, models, exc) ==
    [IdleTask EXCEPT !.pc = "done", !.client = task[t].client, !.force = task[t].force,
                     !.requests = task[t].requests, !.ret = models, !.exc = exc]

IdleAgg == [pc |-> "idle", force |-> FALSE, result |-> <<>>]

\* No direct call has ended a discovery on the connection (or its cache was cleared
\* since).
NoDisc == [at |-> NoTime, failed |-> FALSE, force |-> FALSE, started |-> NoTime]

\* _fetch_models_with_retry returns in this step: after a list (client.py:175) or
\* after the last attempt failed (client.py:198). What the direct caller (task 0)
\* has seen of it is kept.
Discovered(t, failed) ==
    IF t = 0
    THEN disc' = [disc EXCEPT ![task[t].client] =
                     [at |-> now, failed |-> failed, force |-> task[t].force,
                      started |-> task[t].current_time]]
    ELSE UNCHANGED disc

ModelsInit(patternLists) ==
    /\ now = 1
    /\ supported \in patternLists
    /\ cache = [c \in ClientKeys |-> NoCache]
    /\ lastFetch = [c \in ClientKeys |-> NoTime]
    /\ fetchFailed = [c \in ClientKeys |-> FALSE]
    /\ task = [t \in TaskIds |-> IdleTask]
    /\ agg = IdleAgg
    /\ disc = [c \in ClientKeys |-> NoDisc]

\* get_models answers from the cache (client.py:110-124).
CacheHit(c, force) ==
    /\ ~force
    /\ cache[c] # NoCache
    /\ ~ ( /\ fetchFailed[c]
           /\ lastFetch[c] # NoTime /\ lastFetch[c] # 0
           /\ now - lastFetch[c] > Cooldown )

\* A variant that stamps the cache with the time the refetch ended.
StoreFetched_EndTime(t, models) ==
    /\ cache' = [cache EXCEPT ![task[t].client] = models]
    /\ lastFetch' = [lastFetch EXCEPT ![task[t].client] = now]
    /\ fetchFailed' = [fetchFailed EXCEPT ![task[t].client] = (Len(models) = 0)]

\* A variant that keeps the newer of the two timestamps.
StoreFetched_KeepNewer(t, models) ==
    /\ cache' = [cache EXCEPT ![task[t].client] = models]
    /\ lastFetch' = [lastFetch EXCEPT ![task[t].client] =
                        IF lastFetch[task[t].client] > task[t].current_time
                        THEN lastFetch[task[t].client] ELSE task[t].current_time]
    /\ fetchFailed' = [fetchFailed EXCEPT ![task[t].client] = (Len(models) = 0)]

\* The end of get_models after a refetch (client.py:129-134).
StoreFetched(t, models) ==
    /\ cache' = [cache EXCEPT ![task[t].client] = models]
    /\ lastFetch' = [lastFetch EXCEPT ![task[t].client] = task[t].current_time]
    /\ fetchFailed' = [fetchFailed EXCEPT ![task[t].client] = (Len(models) = 0)]

\* The time passes.
Tick ==
    /\ now < MaxTime
    /\ now' = now + 1
    /\ UNCHANGED << supported, cache, lastFetch, fetchFailed, task, agg, disc, chatVars, lifeVars >>

\* The time of the aggregate call: its upstreams answer, or fail, within the second,
\* and the event loop ends a backoff delay on time. The clock stands while a branch
\* waits for an answer or is due to wake up.
TickBetweenAnswers ==
    /\ \A t \in 1..N : task[t].pc \notin {"new", "request"}
    /\ \A t \in 1..N : task[t].pc = "sleeping" => now < task[t].wake
    /\ now < MaxAggregateTime
    /\ Tick

\* A caller calls ProviderClient.get_models(force_refresh) on one connection. The
\* connections share no state: one connection at a time is followed, until the
\* caches are cleared.
DirectGetModels ==
    /\ task[0].pc = "idle"
    /\ \E c \in ClientKeys, force \in BOOLEAN :
          /\ \A d \in ClientKeys \ {c} : cache[d] = NoCache
          /\ task' = [task EXCEPT ![0] = [IdleTask EXCEPT !.pc = "new", !.client = c,
                                                          !.force = force]]
    /\ UNCHANGED << now, supported, cache, lastFetch, fetchFailed, agg, disc, chatVars, lifeVars >>

\* get_all_models creates one get_models coroutine per client and gathers them.
GetAllModelsStart ==
    /\ agg.pc = "idle"
    /\ \E force \in BOOLEAN :
          /\ agg' = [pc |-> "gathering", force |-> force, result |-> <<>>]
          /\ task' = [t \in TaskIds |->
                        IF t = 0 THEN task[0]
                        ELSE [IdleTask EXCEPT !.pc = "new", !.client = ProviderNames[t],
                                              !.force = force]]
    /\ UNCHANGED << now, supported, cache, lastFetch, fetchFailed, disc, chatVars, lifeVars >>

\* get_models runs to its first await: it reads the clock, then either returns the
\* cache or sends the first GET /models.
GetModelsEnter(t) ==
    /\ task[t].pc = "new"
    /\ IF CacheHit(task[t].client, task[t].force)
       THEN task' = [task EXCEPT ![t] = Done(t, cache[task[t].client], "none")]
       ELSE task' = [task EXCEPT ![t].pc = "request", ![t].current_time = now,
                                 ![t].attempt = 0, ![t].requests = 1]
    /\ UNCHANGED << now, supported, cache, lastFetch, fetchFailed, agg, disc, chatVars, lifeVars >>

\* An attempt gets its answer and the answer is a list: the refetch ends.
AttemptSucceeds(t) ==
    /\ task[t].pc = "request"
    /\ \E data \in RawLists :
          LET models == NormalizeModels(task[t].client, data)
          IN  /\ task' = [task EXCEPT ![t] = Done(t, models, "none")]
              /\ StoreFetched(t, models)
    /\ Discovered(t, FALSE)
    /\ UNCHANGED << now, supported, agg, chatVars, lifeVars >>

\* An attempt's answer is a JSON object without "data": the refetch ends with [].
AttemptNoData(t) ==
    /\ task[t].pc = "request"
    /\ task' = [task EXCEPT ![t] = Done(t, <<>>, "none")]
    /\ StoreFetched(t, <<>>)
    /\ Discovered(t, FALSE)
    /\ UNCHANGED << now, supported, agg, chatVars, lifeVars >>

\* An attempt fails (timeout, network error, HTTP status, malformed body): the next
\* one follows after the backoff delay, and the last one ends the refetch with [].
AttemptFails(t) ==
    /\ task[t].pc = "request"
    /\ \E failure \in FetchFailures :
          IF task[t].attempt = MaxRetries - 1
          THEN /\ task' = [task EXCEPT ![t] = Done(t, <<>>, "none")]
               /\ StoreFetched(t, <<>>)
               /\ Discovered(t, TRUE)
          ELSE /\ task' = [task EXCEPT ![t].pc = "sleeping",
                                       ![t].attempt = task[t].attempt + 1,
                                       ![t].wake = now + wait_time(task[t].attempt + 1)]
               /\ UNCHANGED << cache, lastFetch, fetchFailed, disc >>
    /\ UNCHANGED << now, supported, agg, chatVars, lifeVars >>

\* asyncio.sleep(wait_time) is over: the next attempt is sent.
BackoffOver(t) ==
    /\ task[t].pc = "sleeping"
    /\ now >= task[t].wake
    /\ task' = [task EXCEPT ![t].pc = "request", ![t].wake = NoTime,
                             ![t].requests = task[t].requests + 1]
    /\ UNCHANGED << now, supported, cache, lastFetch, fetchFailed, agg, disc, chatVars, lifeVars >>

\* A branch of the aggregate call is cancelled where it waits.
BranchCancelled(t) ==
    /\ t # 0
    /\ task[t].pc \in {"request", "sleeping"}
    /\ task' = [task EXCEPT ![t] = Done(t, <<>>, "CancelledError")]
    /\ UNCHANGED << now, supported, cache, lastFetch, fetchFailed, agg, disc, chatVars, lifeVars >>

\* The direct call has returned to its caller.
DirectReturns ==
    /\ task[0].pc = "done"
    /\ task' = [task EXCEPT ![0] = IdleTask]
    /\ UNCHANGED << now, supported, cache, lastFetch, fetchFailed, agg, disc, chatVars, lifeVars >>

\* A fail-fast variant of the loop: a branch that raised empties the aggregate.
Collect_FailFast(results, k) ==
    IF \E i \in 1..k : results[i].exc # "none"
    THEN <<>>
    ELSE IF k = 2 THEN results[1].ret \o results[2].ret
    ELSE IF k = 1 THEN results[1].ret
    ELSE <<>>

\* The loop over the gathered results (client.py:383-394): all_models after the
\* first k of them.
RECURSIVE Collect(_, _)
Collect(results, k) ==
    IF k = 0
    THEN <<>>
    ELSE IF results[k].exc = "none" /\ results[k].ret # <<>>
    THEN Collect(results, k - 1) \o results[k].ret
    ELSE Collect(results, k - 1)

\* get_all_models once every branch is done: collect, then filter.
all_models(results, patterns) == filter_models(patterns, Collect(results, Len(results)))

GetAllModelsJoin ==
    /\ agg.pc = "gathering"
    /\ \A t \in 1..N : task[t].pc = "done"
    /\ agg' = [agg EXCEPT !.pc = "done",
                          !.result = all_models([t \in 1..N |-> task[t]], supported)]
    /\ UNCHANGED << now, supported, cache, lastFetch, fetchFailed, task, disc, chatVars, lifeVars >>

\* The aggregate call has returned to its caller.
GetAllModelsReturns ==
    /\ agg.pc = "done"
    /\ agg' = IdleAgg
    /\ task' = [t \in TaskIds |-> IF t = 0 THEN task[0] ELSE IdleTask]
    /\ UNCHANGED << now, supported, cache, lastFetch, fetchFailed, disc, chatVars, lifeVars >>

\* A variant that leaves the failure flags as they are.
clear_cache_KeepFailure ==
    /\ cache' = [c \in ClientKeys |-> NoCache]
    /\ lastFetch' = [c \in ClientKeys |-> NoTime]
    /\ disc' = [c \in ClientKeys |-> NoDisc]
    /\ UNCHANGED << now, supported, fetchFailed, task, agg, chatVars, lifeVars >>

\* A variant that leaves the timestamps as they are.
clear_cache_KeepTimestamp ==
    /\ cache' = [c \in ClientKeys |-> NoCache]
    /\ fetchFailed' = [c \in ClientKeys |-> FALSE]
    /\ disc' = [c \in ClientKeys |-> NoDisc]
    /\ UNCHANGED << now, supported, lastFetch, task, agg, chatVars, lifeVars >>

\* ModelManager.clear_cache
clear_cache ==
    /\ cache' = [c \in ClientKeys |-> NoCache]
    /\ fetchFailed' = [c \in ClientKeys |-> FALSE]
    /\ lastFetch' = [c \in ClientKeys |-> NoTime]
    /\ disc' = [c \in ClientKeys |-> NoDisc]
    /\ UNCHANGED << now, supported, task, agg, chatVars, lifeVars >>

\* The aggregate call, its branches, the clock and the cache clearing.
ModelsNext ==
    \/ TickBetweenAnswers
    \/ GetAllModelsStart
    \/ \E t \in 1..N : GetModelsEnter(t)
    \/ \E t \in 1..N : AttemptSucceeds(t)
    \/ \E t \in 1..N : AttemptNoData(t)
    \/ \E t \in 1..N : AttemptFails(t)
    \/ \E t \in 1..N : BackoffOver(t)
    \/ \E t \in 1..N : BranchCancelled(t)
    \/ GetAllModelsJoin
    \/ GetAllModelsReturns
    \/ clear_cache

\* Direct get_models calls on the connections, the clock and the cache clearing.
DiscoveryNext ==
    \/ Tick
    \/ DirectGetModels
    \/ GetModelsEnter(0)
    \/ AttemptSucceeds(0)
    \/ AttemptNoData(0)
    \/ AttemptFails(0)
    \/ BackoffOver(0)
    \/ DirectReturns
    \/ clear_cache

\* The time of a refetch that is followed to its end: it passes up to the horizon,
\* and beyond it for as long as a coroutine waits in asyncio.sleep.
TickRefetch ==
    /\ \/ now < MaxRefetchTime
       \/ task[0].pc = "sleeping" /\ now < task[0].wake
    /\ now' = now + 1
    /\ UNCHANGED << supported, cache, lastFetch, fetchFailed, task, agg, disc, chatVars, lifeVars >>

\* A direct call that begins before the horizon.
RefetchCall ==
    /\ now <= MaxRefetchTime
    /\ DirectGetModels

\* Direct get_models calls on the connections, each followed to its end.
RefetchNext ==
    \/ TickRefetch
    \/ RefetchCall
    \/ GetModelsEnter(0)
    \/ AttemptSucceeds(0)
    \/ AttemptNoData(0)
    \/ AttemptFails(0)
    \/ BackoffOver(0)
    \/ DirectReturns
    \/ clear_cache

(***************************************************************************)
(* The life of a Gateway: api.reload_config and the shutdown of the        *)
(* service (both call ModelManager.close_all), chat requests routed        *)
(* through the live ModelManager meanwhile, and ModelManager.health_check. *)
(***************************************************************************)
\* Reloads followed in one run.
MaxReloads == 2

IdleClosing == [pc |-> "idle", by |-> "none", gen |-> 0, i |-> 0]

IdleRequest ==
    [pc |-> "idle", gen |-> 0, client |-> NoClient, on_closed |-> FALSE,
     during_reload |-> FALSE]

\* What one GET /models of a health check ends in: a status code, a timeout, a
\* network error or any other exception (a closed client raises RuntimeError).
NoStatus == 0

HealthOutcomes ==
    [kind : {"status"}, status : {200, 204, 404, 500}]
        \cup [kind : {"timeout", "network", "error"}, status : {NoStatus}]

IdleBranch ==
    [pc |-> "idle", outcome |-> [kind |-> "none", status |-> NoStatus], ret |-> FALSE,
     exc |-> "none"]

IdleHealth == [pc |-> "idle", gen |-> 0, result |-> <<>>, exc |-> "none"]

NoResponse == [status |-> NoStatus, kind |-> "none"]

IdleServed ==
    [pc |-> "idle", token |-> "", request |-> NoBody, upstream |-> NoUpstream,
     result |-> NoResult, response |-> NoResponse]

LifeInit ==
    /\ model_manager = 1
    /\ closed = {}
    /\ closing = IdleClosing
    /\ request = IdleRequest
    /\ hbranch = [i \in 1..N |-> IdleBranch]
    /\ hagg = IdleHealth
    /\ served = IdleServed

lifeFrame == << chatVars, modelVars, served >>

\* POST /v1/reload: reload_config calls close_all on the live ModelManager.
ReloadStart ==
    /\ closing.pc = "idle"
    /\ model_manager <= MaxReloads
    /\ closing' = [pc |-> "running", by |-> "reload", gen |-> model_manager, i |-> 1]
    /\ UNCHANGED << model_manager, closed, request, hbranch, hagg, lifeFrame >>

\* The service stops: lifespan calls close_all on the live ModelManager.
ShutdownStart ==
    /\ closing.pc = "idle"
    /\ closing' = [pc |-> "running", by |-> "shutdown", gen |-> model_manager, i |-> 1]
    /\ UNCHANGED << model_manager, closed, request, hbranch, hagg, lifeFrame >>

\* close_all's loop: "await client.close()" returns for the next client; after the
\* last one close_all returns.
CloseOne ==
    /\ closing.pc = "running"
    /\ closed' = closed \cup { << closing.gen, ProviderNames[closing.i] >> }
    /\ closing' = [closing EXCEPT !.i = closing.i + 1,
                                  !.pc = IF closing.i = N THEN "returned" ELSE "running"]
    /\ UNCHANGED << model_manager, request, hbranch, hagg, lifeFrame >>

\* "await client.close()" raises: nothing in close_all catches it, the loop ends
\* there. Whether the client that failed counts as closed is for httpx to say.
CloseRaises ==
    /\ closing.pc = "running"
    /\ \E is_closed \in BOOLEAN :
          closed' = IF is_closed
                    THEN closed \cup { << closing.gen, ProviderNames[closing.i] >> }
                    ELSE closed
    /\ closing' = [closing EXCEPT !.pc = "raised"]
    /\ UNCHANGED << model_manager, request, hbranch, hagg, lifeFrame >>

\* reload_config after close_all returned: config.reload(), a new ModelManager with
\* new clients becomes the live one, and its caches are cleared.
ReloadSwap ==
    /\ closing.pc = "returned"
    /\ closing.by = "reload"
    /\ model_manager' = model_manager + 1
    /\ closing' = IdleClosing
    /\ cache' = [c \in ClientKeys |-> NoCache]
    /\ fetchFailed' = [c \in ClientKeys |-> FALSE]
    /\ lastFetch' = [c \in ClientKeys |-> NoTime]
    /\ disc' = [c \in ClientKeys |-> NoDisc]
    /\ UNCHANGED << closed, request, hbranch, hagg, served, chatVars, now, supported, task,
                    agg >>

\* reload_config when close_all raised: the except clause answers HTTP 500 and the
\* live ModelManager stays the one that was being closed.
ReloadFails ==
    /\ closing.pc = "raised"
    /\ closing.by = "reload"
    /\ closing' = IdleClosing
    /\ UNCHANGED << model_manager, closed, request, hbranch, hagg, lifeFrame >>

\* create_chat_completion reads api.model_manager; ModelManager.chat_completion
\* resolves the client and the client sends the request, with no await in between.
\* Once the service shuts down the serving layer accepts no request.
RequestRouted ==
    /\ request.pc = "idle"
    /\ closing.by # "shutdown"
    /\ \E model \in ModelNames :
          /\ get_provider_client(model) # NoClient
          /\ request' = [pc |-> "in_flight", gen |-> model_manager,
                         client |-> get_provider_client(model),
                         on_closed |-> << model_manager, get_provider_client(model) >>
                                          \in closed,
                         during_reload |-> closing.by = "reload"]
    /\ UNCHANGED << model_manager, closed, closing, hbranch, hagg, lifeFrame >>

\* The request ends: with the upstream's answer, or with a provider error.
RequestEnds ==
    /\ request.pc = "in_flight"
    /\ request' = IdleRequest
    /\ UNCHANGED << model_manager, closed, closing, hbranch, hagg, lifeFrame >>

\* A variant that takes every status below 500 for healthy.
is_healthy_Below500(status_code) == status_code < 500

\* "is_healthy = response.status_code == 200" (client.py:340)
is_healthy(status_code) == status_code = 200

\* ProviderClient.health_check: the except clause turns every Exception into False.
ProviderClient_health_check(outcome) ==
    IF outcome.kind = "status" THEN is_healthy(outcome.status) ELSE FALSE

\* The entry of health_status for one gathered result (client.py:466-472).
HealthEntry(r) == IF r.exc = "none" THEN r.ret ELSE FALSE

\* health_status after the loop over the first k results (client.py:465-472).
RECURSIVE HealthStatus(_, _)
HealthStatus(results, k) ==
    IF k = 0
    THEN <<>>
    ELSE LET before == HealthStatus(results, k - 1)
             name == ProviderNames[k]
         IN  [c \in (DOMAIN before) \cup {name} |->
                 IF c = name THEN HealthEntry(results[k]) ELSE before[c]]

\* GET /health: ModelManager.health_check creates one health_check coroutine per
\* client of the live ModelManager and gathers them.
HealthStart ==
    /\ hagg.pc = "idle"
    /\ closing.by # "shutdown"
    /\ hagg' = [IdleHealth EXCEPT !.pc = "gathering", !.gen = model_manager]
    /\ hbranch' = [i \in 1..N |-> [IdleBranch EXCEPT !.pc = "request"]]
    /\ UNCHANGED << model_manager, closed, closing, request, lifeFrame >>

\* A branch's GET /models ends and health_check returns.
HealthBranchEnds(i) ==
    /\ hbranch[i].pc = "request"
    /\ \E outcome \in HealthOutcomes :
          /\ << hagg.gen, ProviderNames[i] >> \in closed => outcome.kind = "error"
          /\ hbranch' = [hbranch EXCEPT ![i] =
                            [pc |-> "done", outcome |-> outcome,
                             ret |-> ProviderClient_health_check(outcome),
                             exc |-> "none"]]
    /\ UNCHANGED << model_manager, closed, closing, request, hagg, lifeFrame >>

\* A branch is cancelled where it waits: CancelledError is no Exception and leaves
\* health_check; gather hands it over as the branch's result.
HealthBranchCancelled(i) ==
    /\ hbranch[i].pc = "request"
    /\ hbranch' = [hbranch EXCEPT ![i] = [IdleBranch EXCEPT !.pc = "done",
                                                            !.exc = "CancelledError"]]
    /\ UNCHANGED << model_manager, closed, closing, request, hagg, lifeFrame >>

\* Every branch is done: the loop builds health_status.
HealthJoin ==
    /\ hagg.pc = "gathering"
    /\ \A i \in 1..N : hbranch[i].pc = "done"
    /\ hagg' = [hagg EXCEPT !.pc = "done", !.result = HealthStatus(hbranch, N)]
    /\ UNCHANGED << model_manager, closed, closing, request, hbranch, lifeFrame >>

\* The aggregate health check has returned to its caller.
HealthReturns ==
    /\ hagg.pc = "done"
    /\ hagg' = IdleHealth
    /\ hbranch' = [i \in 1..N |-> IdleBranch]
    /\ UNCHANGED << model_manager, closed, closing, request, lifeFrame >>

(***************************************************************************)
(* Calls that run concurrently on the connections of one ModelManager: a   *)
(* direct get_models beside the branches of get_all_models, clear_cache,   *)
(* a chat completion and a health check.                                   *)
(***************************************************************************)
TickRace ==
    /\ now < MaxRaceTime
    /\ now' = now + 1
    /\ UNCHANGED << supported, cache, lastFetch, fetchFailed, task, agg, disc, chatVars, lifeVars >>

\* The callers that call get_models side by side.
Callers == {0, 1}

\* A caller calls ProviderClient.get_models(force_refresh) on the first connection,
\* whatever the other caller does on it.
ConcurrentGetModels(t) ==
    /\ task[t].pc = "idle"
    /\ \E force \in BOOLEAN :
          task' = [task EXCEPT ![t] = [IdleTask EXCEPT !.pc = "new",
                                                      !.client = ProviderNames[1],
                                                      !.force = force]]
    /\ UNCHANGED << now, supported, cache, lastFetch, fetchFailed, agg, disc, chatVars, lifeVars >>

\* The call has returned to its caller.
ConcurrentReturns(t) ==
    /\ task[t].pc = "done"
    /\ task' = [task EXCEPT ![t] = IdleTask]
    /\ UNCHANGED << now, supported, cache, lastFetch, fetchFailed, agg, disc, chatVars, lifeVars >>

\* A chat completion beside the discovery: a plain request to provider a, answered
\* or timed out.
RaceBodies ==
    {b \in FullBodies : b.model = <<"a", "/", "m">> /\ b.messages # <<>> /\ ~b.stream}

RaceUpstreams ==
    {up \in Upstreams : /\ up.transport \in {"ok", "timeout"}
                        /\ up.status = 200 /\ up.ctype = "json"
                        /\ up.clen = NoHeader /\ up.size = 0
                        /\ up.json = "plain" /\ ~up.closeFails}

ConcurrentChat ==
    /\ callState = "idle"
    /\ \E b \in RaceBodies, up \in RaceUpstreams :
          Returned("gateway", b, up, ModelManager_chat_completion(b, up))

\* A caller calls ProviderClient.health_check() on the first connection.
ConcurrentHealthCheck ==
    /\ hagg.pc = "idle"
    /\ hbranch[1].pc = "idle"
    /\ hbranch' = [hbranch EXCEPT ![1].pc = "request"]
    /\ UNCHANGED << model_manager, closed, closing, request, hagg, lifeFrame >>

\* Its GET /models ends and health_check returns a boolean to its caller, which
\* keeps nothing of it.
ConcurrentHealthEnds ==
    /\ hagg.pc = "idle"
    /\ hbranch[1].pc = "request"
    /\ \E outcome \in HealthOutcomes : ProviderClient_health_check(outcome) \in BOOLEAN
    /\ hbranch' = [hbranch EXCEPT ![1] = IdleBranch]
    /\ UNCHANGED << model_manager, closed, closing, request, hagg, lifeFrame >>

RaceNext ==
    \/ TickRace
    \/ \E t \in Callers : ConcurrentGetModels(t)
    \/ \E t \in Callers : GetModelsEnter(t)
    \/ \E t \in Callers : AttemptSucceeds(t)
    \/ \E t \in Callers : AttemptNoData(t)
    \/ \E t \in Callers : AttemptFails(t)
    \/ \E t \in Callers : BackoffOver(t)
    \/ \E t \in Callers : ConcurrentReturns(t)
    \/ clear_cache
    \/ ConcurrentChat
    \/ NextCall
    \/ ConcurrentHealthCheck
    \/ ConcurrentHealthEnds

(***************************************************************************)
(* api.create_chat_completion, the handler of POST /v1/chat/completions.   *)
(***************************************************************************)
\* The bearer token of a request ("": none), and config.valid_tokens.
Tokens == {"", "t", "x"}

ValidTokens == {"t"}

\* ChatCompletionRequest objects: stream defaults to False and is always set.
Requests == FullBodies

\* The parameters of ModelManager.chat_completion(self, body), and the keywords the
\* handler calls it with.
ManagerParameters == {"body"}

HandlerKeywords ==
    {"model", "messages", "temperature", "max_tokens", "stream", "top_p",
     "frequency_penalty", "presence_penalty"}

\* Python binds the keyword arguments of a call: a keyword that names no parameter,
\* or a parameter without default that gets no argument, raises TypeError.
Binds(parameters, keywords) == keywords \subseteq parameters /\ parameters \subseteq keywords

\* HTTPException(status_code)
HTTPError(status) == [status |-> status, kind |-> "error"]

\* The handler from the token check to its answer: the Gateway's result it got
\* (none when the call raised) and the response it gives.
create_chat_completion(token, req, up) ==
    IF token = "" \/ token \notin ValidTokens
    THEN [result |-> NoResult, response |-> HTTPError(401)]
    ELSE IF ~Binds(ManagerParameters, HandlerKeywords)
    THEN \* TypeError, caught by "except Exception"
         [result |-> NoResult, response |-> HTTPError(500)]
    ELSE LET r == ModelManager_chat_completion(req, up).result
         IN  IF r.kind = "error"
             THEN [result |-> r, response |-> HTTPError(500)]
             ELSE IF req["stream"] /\ r.kind = "stream_response"
             THEN [result |-> r, response |-> [status |-> 200, kind |-> "event-stream"]]
             ELSE IF r.kind = "stream_response"
             THEN \* JSONResponse cannot serialize the generator: TypeError
                  [result |-> r, response |-> HTTPError(500)]
             ELSE [result |-> r, response |-> [status |-> 200, kind |-> "json"]]

serveFrame == << chatVars, modelVars, model_manager, closed, closing, request, hbranch, hagg >>

\* A request arrives at POST /v1/chat/completions.
ServeReceive ==
    /\ served.pc = "idle"
    /\ \E token \in Tokens, req \in Requests, up \in Upstreams :
          served' = [IdleServed EXCEPT !.pc = "received", !.token = token,
                                      !.request = req, !.upstream = up]
    /\ UNCHANGED serveFrame

\* The handler runs and answers.
ServeHandle ==
    /\ served.pc = "received"
    /\ LET out == create_chat_completion(served.token, served.request, served.upstream)
       IN  served' = [served EXCEPT !.pc = "responded", !.result = out.result,
                                    !.response = out.response]
    /\ UNCHANGED serveFrame

\* The response has been sent.
ServeDone ==
    /\ served.pc = "responded"
    /\ served' = IdleServed
    /\ UNCHANGED serveFrame

ServeNext ==
    \/ ServeReceive
    \/ ServeHandle
    \/ ServeDone

LifeNext ==
    \/ ReloadStart
    \/ ShutdownStart
    \/ CloseOne
    \/ CloseRaises
    \/ ReloadSwap
    \/ ReloadFails
    \/ RequestRouted
    \/ RequestEnds
    \/ HealthStart
    \/ \E i \in 1..N : HealthBranchEnds(i)
    \/ \E i \in 1..N : HealthBranchCancelled(i)
    \/ HealthJoin
    \/ HealthReturns

(***************************************************************************)
(* Specifications.                                                         *)
(***************************************************************************)
vars == << chatVars, modelVars, lifeVars >>

Init == ChatInit /\ ModelsInit({<<>>}) /\ LifeInit

InitModels == ChatInit /\ ModelsInit(PatternLists) /\ LifeInit

\* Chat-completion calls and the consumption of their results.
Spec == Init /\ [][ChatNext]_vars

\* Model discovery and aggregation.
SpecModels == InitModels /\ [][ModelsNext]_vars

\* Model discovery on single connections.
SpecDiscovery == Init /\ [][DiscoveryNext]_vars

\* One connection's discovery with its scheduling: the event loop runs a coroutine
\* that can run, every GET /models ends (it has a timeout), every sleep ends.
SpecRefetch ==
    /\ Init
    /\ [][RefetchNext]_vars
    /\ WF_vars(TickRefetch)
    /\ WF_vars(GetModelsEnter(0))
    /\ WF_vars(AttemptSucceeds(0) \/ AttemptNoData(0) \/ AttemptFails(0))
    /\ WF_vars(BackoffOver(0))

\* Reloads, shutdown, routed requests and health checks.
SpecLife == Init /\ [][LifeNext]_vars

\* Concurrent calls on the connections: discovery, chat completion, health check.
SpecRace == Init /\ [][RaceNext]_vars

\* The request-serving layer and the answers it gives.
SpecServe == Init /\ [][ServeNext]_vars

(***************************************************************************)
(* Properties of chat-completion calls (checked under Spec).               *)
(***************************************************************************)
CallOver == callState # "idle"

\* The request went upstream and the upstream answered with a response.
Answered == CallOver /\ sent # <<>> /\ upstream.transport = "ok"

\* The model's provider prefix is missing, empty or no configured provider.
Unroutable(model) ==
    \/ ~HasSlash(model)
    \/ parse_model_name(model)[1] = <<>>
    \/ \A i \in 1..Len(ProviderNames) : parse_model_name(model)[1] # ProviderNames[i]

IsError(code) == result.kind = "error" /\ result.code = code

\* C1: a Gateway chat completion with non-empty messages and a model whose provider
\* prefix is missing, empty or not configured returns a model_not_found error, raises
\* nothing and sends nothing upstream.
C1_RoutingFailure ==
    ( /\ CallOver
      /\ entry = "gateway"
      /\ Truthy(body, "messages")
      /\ Truthy(body, "model")
      /\ Unroutable(body["model"]) )
    => /\ callState = "returned"
       /\ raised = "none"
       /\ IsError("model_not_found")
       /\ result.type = "model_not_found"
       /\ sent = <<>>
       /\ ~respObtained

C1_Witness ==
    /\ entry = "gateway"
    /\ Truthy(body, "messages")
    /\ "model" \in DOMAIN body
    /\ body["model"] = <<"c", "/", "m">>
    /\ IsError("model_not_found")
    /\ sent = <<>>

\* C2: the response of a streaming result is never released while the chunk
\* sequence is unfinished, never released twice, and has been released exactly once
\* when the consumption has ended by exhaustion, by cancellation or by a mid-stream
\* error.
StreamEnded ==
    /\ gen = "closed"
    /\ pending \in {"StopAsyncIteration", "CancelledError", "StreamError", "GeneratorExit"}

C2_StreamReleasedOnceAtEnd ==
    /\ released <= 1
    /\ (result = StreamResult /\ gen \in {"created", "running", "suspended", "finally"})
          => released = 0
    /\ StreamEnded => released = 1

C2_Witness ==
    /\ StreamEnded
    /\ pending = "CancelledError"
    /\ chunks = 1
    /\ released = 1

\* C3: however the consumer stops using the chunk sequence, the response has been
\* released once nothing more can run in the generator: it was closed, or it was
\* dropped before its first chunk was requested.
StreamOver ==
    /\ result = StreamResult
    /\ \/ gen = "closed"
       \/ consumer = "gone" /\ gen = "created"

C3_AbandonedStreamReleased == StreamOver => released >= 1

\* C4: a call that obtained a response and does not return a streaming result has
\* released the response exactly once when it ends, whether it returns a body, returns
\* an error or raises.
C4_NonStreamReleasedOnce ==
    (CallOver /\ respObtained /\ result # StreamResult) => released = 1

C4_Witness ==
    /\ callState = "returned"
    /\ respObtained
    /\ result.kind = "error"
    /\ upstream.json = "bad"
    /\ IsSuccess(upstream.status)
    /\ released = 1

\* C5: an upstream answer with a failure status makes the call return a
\* provider-error result and raise nothing, with stream=true as with stream=false.
C5_HttpFailureIsProviderError ==
    (Answered /\ ~IsSuccess(upstream.status))
    => /\ callState = "returned"
       /\ raised = "none"
       /\ result.kind = "error"
       /\ result.type = "provider_error"

\* C6: a non-streaming response whose declared content-length or whose read body
\* exceeds maxResponseSize yields a provider_error result, no parsed body, and the
\* response is released exactly once.
Buffered == Answered /\ ~Truthy(body, "stream") /\ upstream.ctype = "json"

Oversized ==
    \/ upstream.clen # NoHeader /\ upstream.clen > MaxResponseSize
    \/ upstream.size > MaxResponseSize

C6_OversizedIsProviderError ==
    (Buffered /\ Oversized)
    => /\ callState = "returned"
       /\ result.kind = "error"
       /\ result.type = "provider_error"
       /\ released = 1

C6_Witness ==
    /\ Buffered
    /\ IsSuccess(upstream.status)
    /\ upstream.clen = NoHeader
    /\ upstream.size = MaxResponseSize + 1
    /\ upstream.json = "plain"
    /\ result.kind = "error"
    /\ released = 1

\* C7: a call sends at most one chat request upstream, and whatever fails (transport,
\* timeout, HTTP status, malformed or oversized body) it returns an error result.
ChatFailed ==
    /\ CallOver
    /\ sent # <<>>
    /\ \/ upstream.transport # "ok"
       \/ ~IsSuccess(upstream.status)
       \/ Buffered /\ (Oversized \/ upstream.json = "bad")

C7_NoRetryStructuredError ==
    /\ Len(sent) <= 1
    /\ ChatFailed => (callState = "returned" /\ raised = "none" /\ result.kind = "error")

\* C8: a chat completion, on the Gateway or on a connection, whose model or messages
\* is missing or empty returns an invalid_request error and sends nothing upstream.
C8_MissingFieldIsInvalidRequest ==
    (CallOver /\ (~Truthy(body, "model") \/ ~Truthy(body, "messages")))
    => /\ callState = "returned"
       /\ raised = "none"
       /\ IsError("invalid_request")
       /\ result.type = "invalid_request"
       /\ sent = <<>>

C8_Witness ==
    /\ entry = "provider"
    /\ Truthy(body, "model")
    /\ "messages" \in DOMAIN body
    /\ body["messages"] = <<>>
    /\ IsError("invalid_request")
    /\ sent = <<>>

\* C20: a cancellation raised while the chunk sequence is consumed reaches the
\* consumer as a cancellation, and only after the response was closed: not before
\* the generator's cleanup, and not turned into a normal end of the sequence.
C20_CancellationClosesThenReraises ==
    /\ signal = "CancelledError" => released = 1
    /\ (pending = "CancelledError" /\ gen = "finally") => (signal = "none" /\ released = 0)
    /\ (pending = "CancelledError" /\ gen = "closed") => signal = "CancelledError"

C20_Witness ==
    /\ gen = "closed"
    /\ signal = "CancelledError"
    /\ released = 1
    /\ closeErrors = 1
    /\ chunks = MaxChunks

\* C21: the payload sent upstream has the fields of the inbound envelope, each with
\* its value unchanged except model, which is the part of the inbound model after its
\* first "/" (the whole name when it has none); the envelope the caller holds is
\* what it passed in.
AfterFirstSlash(model, rest) ==
    IF HasSlash(model)
    THEN \E i \in 1..Len(model) :
            /\ model[i] = "/"
            /\ \A j \in 1..(i - 1) : model[j] # "/"
            /\ rest = SubSeq(model, i + 1, Len(model))
    ELSE rest = model

C21_PayloadIsEnvelopeButModel ==
    (CallOver /\ sent # <<>>)
    => /\ Len(sent) = 1
       /\ DOMAIN sent[1] = DOMAIN body
       /\ \A k \in (DOMAIN body) \ {"model"} : sent[1][k] = body[k]
       /\ AfterFirstSlash(body["model"], sent[1]["model"])
       /\ body \in Bodies

C21_Witness ==
    /\ CallOver
    /\ Len(sent) = 1
    /\ DOMAIN body = BodyKeys
    /\ body["model"] = <<"a", "/", "m", "/", "n">>
    /\ sent[1]["model"] = <<"m", "/", "n">>
    /\ sent[1]["stream"] = TRUE
    /\ sent[1]["messages"] = body["messages"]

\* C22 as stated: every error result names a provider in its message.
NamesProvider(message, name) == \E i \in 1..Len(message) : message[i] = name

C22_EveryErrorNamesProvider ==
    (CallOver /\ result.kind = "error")
    => \E c \in ClientKeys : NamesProvider(result.message, c)

\* C22, amended: every error result carries a message, a type and a code; the message
\* of a provider_error names the provider the request was routed to, the message of a
\* model_not_found names the requested model, and an invalid_request names neither.
C22_ErrorResultShape ==
    (CallOver /\ result.kind = "error")
    => /\ {"message", "type", "code"} \subseteq DOMAIN result
       /\ result.type \in {"invalid_request", "model_not_found", "provider_error"}
       /\ result.type = "provider_error"
             => /\ \E c \in ClientKeys : NamesProvider(result.message, c)
                /\ entry = "gateway"
                      => NamesProvider(result.message, get_provider_client(body["model"]))
       /\ result.type = "model_not_found" => NamesProvider(result.message, body["model"])
       /\ result.type = "invalid_request"
             => \A c \in ClientKeys : ~NamesProvider(result.message, c)

C22_Witness ==
    /\ callState = "returned"
    /\ entry = "gateway"
    /\ result.kind = "error"
    /\ result.type = "provider_error"
    /\ upstream.transport = "timeout"
    /\ NamesProvider(result.message, <<"b">>)

\* C27: in the buffered branch a declared content-length above maxResponseSize ends
\* the call with an error while the body has not been read into memory.
C27_OversizedBodyNeverRead ==
    (Buffered /\ IsSuccess(upstream.status)
     /\ upstream.clen # NoHeader /\ upstream.clen > MaxResponseSize)
    => (result.kind = "error" /\ ~respRead)

\* C28: a chat call with stream=false runs under nonStreamTimeout, a streaming call
\* under streamTimeout, a discovery request under the discovery timeout.
C28_TimeoutTiers ==
    /\ (CallOver /\ sent # <<>> /\ ~Truthy(body, "stream"))
          => readTimeout = non_stream_timeout
    /\ (CallOver /\ sent # <<>> /\ Truthy(body, "stream"))
          => readTimeout = stream_timeout
    /\ RequestReadTimeout("discovery") = DiscoveryTimeout

(***************************************************************************)
(* Properties of the request-serving layer (checked under SpecServe).      *)
(***************************************************************************)
\* C24: a request with a valid token for which the Gateway's chat completion signals
\* a streaming outcome is answered with an event-stream that relays the chunks.
C24_StreamingOutcomeRelayed ==
    ( /\ served.pc = "responded"
      /\ served.token \in ValidTokens
      /\ ModelManager_chat_completion(served.request, served.upstream).result.kind
             = "stream_response" )
    => served.response.kind = "event-stream"

(***************************************************************************)
(* Properties of discovery on one connection (checked under SpecDiscovery).*)
(***************************************************************************)
\* The direct call did not answer from the cache: it has sent a GET /models.
Fetching == task[0].pc \in {"request", "sleeping"}

\* The last discovery a direct call ended on the connection the call is on.
Previous == disc[task[0].client]

\* C11: a listModels(forceRefresh=false) call that enters at the instant the
\* discovery of the previous listModels(forceRefresh=false) call on the same provider
\* ended sends no upstream request, whether that discovery succeeded or failed and
\* however long it took.
C11_SecondCallFromCache ==
    (Fetching /\ ~task[0].force /\ Previous.at # NoTime /\ ~Previous.force)
    => task[0].current_time # Previous.at

C13_CooldownAfterExhaustion ==
    (Fetching /\ ~task[0].force /\ Previous.failed)
    => task[0].current_time - Previous.at >= Cooldown

\* C14: listModels raises nothing whatever fails upstream, a discovery that ended
\* leaves the cache non-null, and the call that follows a failed discovery at once
\* is answered from that cache.
C14_FailureAbsorbed ==
    /\ task[0].pc = "done" => task[0].exc = "none"
    /\ \A c \in ClientKeys : disc[c].at # NoTime => cache[c] # NoCache
    /\ (Fetching /\ ~task[0].force /\ Previous.failed)
       => task[0].current_time > Previous.at

\* C23: a direct listModels on a provider that declares a non-empty model list sends
\* no GET /models and returns only ids the list declares.
Declared(c, id) ==
    \E j \in 1..Len(model_list(c)) :
        id = model_list(c)[j] \/ id = c \o <<"/">> \o model_list(c)[j]

C23_DeclaredListInsteadOfDiscovery ==
    (task[0].pc = "done" /\ model_list(task[0].client) # <<>>)
    => /\ task[0].requests = 0
       /\ \A i \in 1..Len(task[0].ret) : Declared(task[0].client, task[0].ret[i].id)

\* C26: once a discovery has ended on a connection, its cache and timestamp are set
\* and its failure flag is true exactly if the discovery exhausted its attempts.
C26_FlagIffExhausted ==
    \A c \in ClientKeys :
        disc[c].at # NoTime
        => /\ cache[c] # NoCache
           /\ lastFetch[c] # NoTime
           /\ fetchFailed[c] = disc[c].failed

\* C25: one refetch sends at most three GET /models; the first goes out in the step
\* that enters the call, the second no sooner than 2 s after the first failure, the
\* third no sooner than 4 s after the second; a failed attempt that is not the third
\* is followed by another; an attempt that succeeds ends the refetch with the
\* normalized list it got; the third failure ends it with the empty list; and every
\* call that was entered ends.
Normalized(c, models) ==
    \/ models = <<>>
    \/ \E data \in RawLists :
          /\ Len(models) = Len(data)
          /\ \A i \in 1..Len(data) :
                /\ models[i].owned_by = c
                /\ IsPrefix(c \o <<"/">>, models[i].id)

RefetchStep ==
    LET t == task[0]
        u == task'[0]
    IN  /\ (t.pc = "new" /\ u.pc # "new")
            => /\ now' = now
               /\ u.pc \in {"request", "done"}
               /\ u.pc = "request" => (u.requests = 1 /\ u.attempt = 0)
               /\ u.pc = "done" => u.requests = 0
        /\ (t.pc = "request" /\ u.pc = "sleeping")
            => /\ t.requests < 3
               /\ u.attempt = t.attempt + 1
               /\ u.wake = now + (IF u.attempt = 1 THEN 2 ELSE 4)
        /\ (t.pc = "sleeping" /\ u.pc # "sleeping")
            => /\ u.pc = "request"
               /\ now >= t.wake
               /\ u.requests = t.requests + 1
        /\ (t.pc = "request" /\ u.pc # "request")
            => /\ u.pc \in {"sleeping", "done"}
               /\ u.pc = "done"
                     => /\ u.requests = t.requests
                        /\ disc'[t.client].at = now
                        /\ Normalized(t.client, u.ret)
                        /\ disc'[t.client].failed => (u.requests = 3 /\ u.ret = <<>>)

C25_BoundedRetryTerminates ==
    /\ [](task[0].requests <= 3)
    /\ [][RefetchStep]_vars
    /\ (task[0].pc = "new") ~> (task[0].pc = "done")

\* The third attempt of a refetch, 6 s or more after the first, has succeeded.
C25_Witness ==
    /\ task[0].pc = "done"
    /\ task[0].requests = 3
    /\ task[0].ret # <<>>
    /\ now >= task[0].current_time + 6

(***************************************************************************)
(* Properties of concurrent calls on a connection (checked under SpecRace).*)
(***************************************************************************)
\* C29: on every connection the three cache fields agree: without a cache the flag
\* is false and there is no timestamp; with a cache there is a timestamp and the flag
\* says whether the cache is the empty list; and no step of a chat completion or of a
\* health check changes any of the three.
CacheFieldsAgree(c) ==
    IF cache[c] = NoCache
    THEN ~fetchFailed[c] /\ lastFetch[c] = NoTime
    ELSE lastFetch[c] # NoTime /\ (fetchFailed[c] <=> (cache[c] = <<>>))

ChatOrHealthStep ==
    \/ chatVars' # chatVars
    \/ hbranch' # hbranch

C29_CacheFieldsConsistent ==
    /\ [](\A c \in ClientKeys : CacheFieldsAgree(c))
    /\ [][ChatOrHealthStep
            => (cache' = cache /\ lastFetch' = lastFetch /\ fetchFailed' = fetchFailed)]_vars

\* A refetch whose second attempt got an empty list has stored it while the other
\* caller's refetch runs, beside a finished chat completion and a health check in
\* flight.
C29_Witness ==
    /\ task[1].pc = "done"
    /\ task[1].requests >= 2
    /\ cache[task[1].client] = <<>>
    /\ fetchFailed[task[1].client]
    /\ task[0].pc = "request"
    /\ task[0].client = task[1].client
    /\ callState = "returned"
    /\ hbranch[1].pc = "request"

\* C30 as stated: while no cache is cleared, the timestamp of a connection never
\* decreases.
C30_TimestampNeverDecreases ==
    [][\A c \in ClientKeys :
          (lastFetch[c] # NoTime /\ lastFetch'[c] # NoTime) => lastFetch'[c] >= lastFetch[c]]_vars

\* C30, amended: the last writer wins. Every step that changes a field of a
\* connection's cache, other than a clearing, is the end of one refetch on that
\* connection, and leaves the list that refetch got, the time that refetch began
\* (earlier, possibly, than the timestamp it replaces) and the flag of that list.
StoresOf(t, c) ==
    /\ task[t].client = c
    /\ task[t].pc = "request"
    /\ task'[t].pc = "done"
    /\ cache'[c] = task'[t].ret
    /\ lastFetch'[c] = task[t].current_time
    /\ fetchFailed'[c] = (task'[t].ret = <<>>)

Cleared == \A c \in ClientKeys : cache'[c] = NoCache

C30_LastWriterWins ==
    [][\A c \in ClientKeys :
          (cache'[c] # cache[c] \/ lastFetch'[c] # lastFetch[c] \/ fetchFailed'[c] # fetchFailed[c])
          => (Cleared \/ \E t \in Callers : StoresOf(t, c))]_vars

\* The direct caller's refetch has stored, and the timestamp now is older than the
\* time that refetch began: a refetch begun earlier has stored after it.
C30_Witness ==
    \E c \in ClientKeys :
        /\ disc[c].at # NoTime
        /\ lastFetch[c] # NoTime
        /\ lastFetch[c] < disc[c].started

(***************************************************************************)
(* Properties of the aggregate model list (checked under SpecModels).      *)
(***************************************************************************)
\* What a branch contributes: its list, and nothing if it raised.
BranchList(t) == IF task[t].exc = "none" THEN task[t].ret ELSE <<>>

\* The lists of the first k branches laid end to end, in registration order.
RECURSIVE Concatenated(_)
Concatenated(k) == IF k = 0 THEN <<>> ELSE Concatenated(k - 1) \o BranchList(k)

\* C9: with an empty allow-list the aggregate is exactly the branches' lists, in
\* registration order and in each list's own order; a branch that raised adds nothing
\* and takes nothing away.
C9_ConcatenationInOrder ==
    (agg.pc = "done" /\ supported = <<>>) => agg.result = Concatenated(N)

C9_Witness ==
    /\ agg.pc = "done"
    /\ supported = <<>>
    /\ task[1].exc # "none"
    /\ Len(task[2].ret) = 2
    /\ agg.result = task[2].ret

\* C10: every model of the aggregate has an id that starts with "<name>/" for a
\* configured provider name and is owned by that same name.
QualifiedBy(m, name) == IsPrefix(name \o <<"/">>, m.id) /\ m.owned_by = name

C10_IdAndOwnerAreTheProvider ==
    \A i \in 1..Len(agg.result) :
        \E j \in 1..Len(ProviderNames) : QualifiedBy(agg.result[i], ProviderNames[j])

C10_Witness ==
    /\ agg.pc = "done"
    /\ \E i \in 1..Len(agg.result) :
          /\ agg.result[i].id = <<"a", "/", "b", "/", "M">>
          /\ agg.result[i].owned_by = <<"a">>
    /\ cache[<<"b">>] = <<>>


\* C16: a step that makes any provider's model cache absent makes every provider's
\* cache absent, every failure flag false and every timestamp absent, and changes
\* nothing else (the clock, the configuration, the calls under way, the live
\* ModelManager and its pooled clients); a listModels(forceRefresh=false) that then
\* finds its cache absent sends a GET /models.
ClearsSome == \E c \in ClientKeys : cache[c] # NoCache /\ cache'[c] = NoCache

C16_ClearCachesResets ==
    [][ /\ ClearsSome
           => /\ \A c \in ClientKeys :
                    cache'[c] = NoCache /\ fetchFailed'[c] = FALSE /\ lastFetch'[c] = NoTime
              /\ UNCHANGED << now, supported, task, agg, model_manager, closed, closing >>
        /\ \A t \in 1..N :
              (task[t].pc = "new" /\ task'[t].pc # "new" /\ ~task[t].force
               /\ cache[task[t].client] = NoCache)
              => (task'[t].pc = "request" /\ task'[t].requests = 1) ]_vars

C16_Witness ==
    /\ \A c \in ClientKeys :
          cache[c] = NoCache /\ fetchFailed[c] = FALSE /\ lastFetch[c] = NoTime
    /\ agg.pc = "gathering"
    /\ ~agg.force
    /\ task[1].pc = "done"
    /\ task[1].requests = 0
    /\ task[1].ret # <<>>
    /\ task[2].pc = "request"

\* C19: the aggregate is the concatenation with exactly those models removed that no
\* valid pattern of a non-empty allow-list matches when case is ignored; a pattern
\* that does not compile matches nothing and stops nothing; the kept models stay in
\* their order.
Upper(ch) == IF ch = "m" THEN "M" ELSE IF ch = "a" THEN "A" ELSE IF ch = "b" THEN "B" ELSE ch

UpperStr(str) == [i \in 1..Len(str) |-> Upper(str[i])]

ValidMatch(pattern, model_id) ==
    /\ pattern.kind # "invalid"
    /\ IF pattern.kind = "anchored"
       THEN IsPrefix(UpperStr(pattern.text), UpperStr(model_id))
       ELSE Occurs(UpperStr(pattern.text), UpperStr(model_id))

Allowed(m) ==
    \/ supported = <<>>
    \/ \E i \in 1..Len(supported) : ValidMatch(supported[i], m.id)

C19_AllowListFilter ==
    agg.pc = "done" => agg.result = SelectSeq(Concatenated(N), Allowed)

C19_Witness ==
    /\ agg.pc = "done"
    /\ Len(supported) = 2
    /\ Len(Concatenated(N)) = 3
    /\ Len(agg.result) = 2
    /\ agg.result[1].id = <<"a", "/", "b", "/", "M">>
    /\ agg.result[2].id = <<"a", "/", "n">>

CloseAllOver == closing.pc \in {"returned", "raised"}

C17_CloseAllClosesEveryClient ==
    CloseAllOver => \A c \in ClientKeys : << closing.gen, c >> \in closed

\* C18: the aggregate health check raises nothing and returns one boolean per
\* configured provider; a provider whose check got a status outside 2xx, a transport
\* failure or any exception is mapped to false, and a provider answered with 200 is
\* mapped to true whatever became of the others.
Unhealthy(b) ==
    \/ b.exc # "none"
    \/ b.outcome.kind \in {"timeout", "network", "error"}
    \/ b.outcome.kind = "status" /\ ~IsSuccess(b.outcome.status)

C18_HealthCheckAll ==
    hagg.pc = "done"
    => /\ hagg.exc = "none"
       /\ DOMAIN hagg.result = ClientKeys
       /\ \A i \in 1..N :
             /\ hagg.result[ProviderNames[i]] \in BOOLEAN
             /\ Unhealthy(hbranch[i]) => hagg.result[ProviderNames[i]] = FALSE
             /\ (hbranch[i].exc = "none" /\ hbranch[i].outcome.kind = "status"
                 /\ hbranch[i].outcome.status = 200)
                => hagg.result[ProviderNames[i]] = TRUE

C18_Witness ==
    /\ hagg.pc = "done"
    /\ hbranch[1].exc = "CancelledError"
    /\ hbranch[2].outcome.kind = "status"
    /\ hbranch[2].outcome.status = 200
    /\ hagg.result[ProviderNames[1]] = FALSE
    /\ hagg.result[ProviderNames[2]] = TRUE


====
